---- MODULE Spec2Model ----
\* Greylitsearcher: the three-tier paginated search accumulation of main.py
\* (search_button block) and the batch save of
\* DirectAirtableIntegration.save_results.
EXTENDS Integers, Sequences, FiniteSets, TLC

\* ---------------------------------------------------------------- bounds
\* Pages the search service serves during a run over more than one site;
\* once they are spent every request of the run is rate limited on every
\* credential. (A request may be rate limited on every credential at any
\* point before that, too. A run over one site is not bounded: it never takes
\* more than five pages to fill a list.)
MaxPages == 4
\* Items in the mapping handed to save_results, all sites together.
MaxItems == 3

\* ------------------------------------------------------ program constants
Cap == 40
PageSize == 10
Budget1 == 4
Budget2 == 8
Budget3 == 10
NumCredentials == 3

\* ------------------------------------------------------------ environment
\* The four term fields of one "Search n" expander.
NoTerms == [and |-> "", exact |-> "", any |-> "", none |-> ""]
TermChoices ==
  { NoTerms, [and |-> "", exact |-> "", any |-> "", none |-> "x"] }

\* The text area split on newlines: two different sites with a blank line
\* between them, or any prefix of that.
Typed == <<"a.org", "", "b.org">>
WebsiteLists == { SubSeq(Typed, 1, n) : n \in 0..Len(Typed) }

VARIABLES
  websites,       \* websites.split('\n')
  terms,          \* terms[t]: the four text inputs of tier t
  results,        \* st.session_state['results']: site -> list of items
  limitExceeded,  \* run-level flag
  idx,            \* position of the for-loop over websites
  pc,             \* position inside the body of that loop
  page,           \* loop variable of the running tier's pagination loop
  served,         \* requests the service has answered with a page so far
  lastRequest,    \* history: the latest page request and what it answered
  atFailure,      \* history: site -> its list when a request last came back exhausted
  \* save_results
  mapping,           \* the results argument: <<site, items>> pairs in dict order
  check_duplicates,  \* the check_duplicates argument
  progress_callback, \* whether a progress callback was passed
  table,             \* links of the records in the Airtable table
  all_items,         \* the flattened worklist
  item_idx,          \* enumerate index of the next worklist entry
  stats,             \* the counters
  spc,               \* position in save_results
  trace,             \* history: store requests, sleeps and callback calls, in order
  \* one call of google_search
  cred_answers,      \* what each credential pair's request would answer
  cred,              \* position of the loop over zip(GS_CX, GS_KEYS)
  returned,          \* the value google_search returned
  gpc,               \* position in the call and in its caller
  used               \* history: the credential pairs requests were sent with, in order

accVars == <<websites, terms, results, limitExceeded, idx, pc, page, served,
             lastRequest, atFailure>>
saveVars == <<mapping, check_duplicates, progress_callback, table, all_items,
              item_idx, stats, spc, trace>>
gsVars == <<cred_answers, cred, returned, gpc, used>>
vars == <<accVars, saveVars, gsVars>>

EmptyMap == [s \in {} |-> <<>>]
NoRequest == [site |-> "", tier |-> 0, page |-> 0, before |-> 0, raw |-> 0,
              exhausted |-> FALSE]

\* -------------------------------------------------------- search service
Max(S) == CHOOSE x \in S : \A y \in S : y <= x
Min2(a, b) == IF a < b THEN a ELSE b

Links(list) == { list[i].link : i \in 1..Len(list) }
NextFresh(list) == IF list = <<>> THEN 0 ELSE Max(Links(list))

\* One page of n links as the service may answer it for a site whose list
\* is `list`: all new links, or a page that starts with the link the site's
\* first page started with and then lists its first new link twice.
PageLinks(kind, n, list) ==
  LET base == NextFresh(list)
  IN  CASE kind = "fresh" -> [i \in 1..n |-> base + i]
        [] kind = "dup"   -> [i \in 1..n |->
                                IF i = 1 THEN 1
                                ELSE base + (IF i = 2 THEN 1 ELSE i - 2)]

Item(l) == [link |-> l, priority |-> 0]
Body(ls) == [error |-> "", items |-> [i \in 1..Len(ls) |-> Item(ls[i])]]
RateLimited == [error |-> "rateLimitExceeded", items |-> <<>>]
OtherError == [error |-> "invalid", items |-> <<>>]

ShortPage == PageSize - 1

OneSite == Cardinality({ i \in 1..Len(websites) : websites[i] # "" }) <= 1
Kinds == {"fresh", "dup"}

\* What one credential's HTTP request may answer during a run: a rate-limit
\* error, a full page of either kind, or a short page.
Answers(list) ==
  { RateLimited } \cup
  IF OneSite \/ served < MaxPages
    THEN { Body(PageLinks("fresh", ShortPage, list)) } \cup
         { Body(PageLinks(k, PageSize, list)) : k \in Kinds }
    ELSE {}

None == [error |-> "None", items |-> <<>>]

\* google_search: the credentials are tried in order; the first answer that
\* is not a rate-limit error is returned, None when there is none.
RECURSIVE FirstNotLimited(_, _)
FirstNotLimited(answers, i) ==
  IF i > Len(answers) THEN None
  ELSE IF answers[i].error # "rateLimitExceeded" THEN answers[i]
  ELSE FirstNotLimited(answers, i + 1)

google_search(answers) == FirstNotLimited(answers, 1)

\* The answers of the credentials for one call: k of them rate limited,
\* the next one (if any) answering r.
CredentialAnswers(list) ==
  { [i \in 1..NumCredentials |-> IF i <= k THEN RateLimited ELSE r] :
      k \in 0..NumCredentials, r \in Answers(list) }

GetItems(response) == response.items

\* --------------------------------------------------------- accumulation
website == websites[idx]

Active(t) ==
  terms[t].and # "" \/ terms[t].exact # "" \/ terms[t].any # "" \/ terms[t].none # ""

Tag(items, p) == [i \in 1..Len(items) |-> [items[i] EXCEPT !.priority = p]]

\* [item for item in items if item['link'] not in [links of the list]]:
\* the filter is evaluated against the list as it is before the extend.
NotYetListed(items, list) ==
  SelectSeq(items, LAMBDA it : it.link \notin Links(list))

Extend1(list, items) == list \o items
Extend2Unfiltered(list, items) == list \o items
Extend2(list, items) == list \o NotYetListed(items, list)
Extend3(list, items) == list \o NotYetListed(items, list)

BreakAfterCapOnly(list, items) == Len(list) >= Cap
\* if len(results[website]) >= 40 or len(current_results.get('items', [])) < 10: break
BreakAfter(list, items) == Len(list) >= Cap \/ Len(items) < PageSize

StartTierAnyTerms(list, t) == Len(list) < Cap
StartTierAnyCount(list, t) == Active(t)
\* if len(results[website]) < 40 and (and_t or exact_t or any_t or none_t)
StartTier(list, t) == Len(list) < Cap /\ Active(t)

FlagAfterKept(response, flag) == flag
\* if current_results == None: limitExceeded = True
FlagAfter(response, flag) == IF response = None THEN TRUE ELSE flag

TruncatedNot(list) == list
TruncatedTail(list) ==
  SubSeq(list, Len(list) - Min2(Cap, Len(list)) + 1, Len(list))
\* results[website][:40]
Truncated(list) == SubSeq(list, 1, Min2(Cap, Len(list)))

Request(t, response) ==
  [site |-> website, tier |-> t, page |-> page,
   before |-> Len(results[website]), raw |-> Len(GetItems(response)),
   exhausted |-> response = None]

\* One iteration of a tier's pagination loop.
TierPage(t, budget, here, next, response, merged) ==
  /\ pc = here
  /\ lastRequest' = Request(t, response)
  /\ served' = IF response = None THEN served ELSE served + 1
  /\ IF response = None
       THEN /\ atFailure' = [s \in DOMAIN atFailure \cup {website} |->
                               IF s = website THEN results[website] ELSE atFailure[s]]
            /\ pc' = next
            /\ UNCHANGED <<results, page>>
       ELSE /\ results' = [results EXCEPT ![website] = merged]
            /\ IF BreakAfter(merged, GetItems(response)) \/ page + 1 >= budget
                 THEN pc' = next /\ page' = page
                 ELSE pc' = here /\ page' = page + 1
            /\ UNCHANGED atFailure
  /\ limitExceeded' = FlagAfter(response, limitExceeded)
  /\ UNCHANGED <<websites, terms, idx>>
  /\ UNCHANGED saveVars
  /\ UNCHANGED gsVars

Tier1Page ==
  \E answers \in CredentialAnswers(IF pc = "tier1" THEN results[website] ELSE <<>>) :
    LET response == google_search(answers)
        items == Tag(GetItems(response), 1)
    IN  TierPage(1, Budget1, "tier1", "guard2", response,
                 Extend1(results[website], items))

Tier2Guard ==
  /\ pc = "guard2"
  /\ IF StartTier(results[website], 2)
       THEN pc' = "tier2"
       ELSE pc' = "guard3"
  /\ page' = 0
  /\ UNCHANGED <<websites, terms, results, limitExceeded, idx, served,
                 lastRequest, atFailure>>
  /\ UNCHANGED saveVars
  /\ UNCHANGED gsVars

Tier2Page ==
  \E answers \in CredentialAnswers(IF pc = "tier2" THEN results[website] ELSE <<>>) :
    LET response == google_search(answers)
        items == Tag(GetItems(response), 2)
    IN  TierPage(2, Budget2, "tier2", "guard3", response,
                 Extend2(results[website], items))

Tier3Guard ==
  /\ pc = "guard3"
  /\ IF StartTier(results[website], 3)
       THEN pc' = "tier3"
       ELSE pc' = "truncate"
  /\ page' = 0
  /\ UNCHANGED <<websites, terms, results, limitExceeded, idx, served,
                 lastRequest, atFailure>>
  /\ UNCHANGED saveVars
  /\ UNCHANGED gsVars

Tier3Page ==
  \E answers \in CredentialAnswers(IF pc = "tier3" THEN results[website] ELSE <<>>) :
    LET response == google_search(answers)
        items == Tag(GetItems(response), 3)
    IN  TierPage(3, Budget3, "tier3", "truncate", response,
                 Extend3(results[website], items))

Truncate ==
  /\ pc = "truncate"
  /\ results' = [results EXCEPT ![website] = Truncated(@)]
  /\ idx' = idx + 1
  /\ pc' = "site"
  /\ UNCHANGED <<websites, terms, limitExceeded, page, served, lastRequest,
                 atFailure>>
  /\ UNCHANGED saveVars
  /\ UNCHANGED gsVars

\* for website in websites: if website: results[website] = []
NextWebsite ==
  /\ pc = "site"
  /\ idx <= Len(websites)
  /\ IF website = ""
       THEN /\ idx' = idx + 1
            /\ UNCHANGED <<results, pc>>
       ELSE /\ results' = [s \in DOMAIN results \cup {website} |->
                             IF s = website THEN <<>> ELSE results[s]]
            /\ pc' = "tier1"
            /\ UNCHANGED idx
  /\ page' = 0
  /\ UNCHANGED <<websites, terms, limitExceeded, served, lastRequest, atFailure>>
  /\ UNCHANGED saveVars
  /\ UNCHANGED gsVars

Finish ==
  /\ pc = "site"
  /\ idx > Len(websites)
  /\ pc' = "done"
  /\ UNCHANGED <<websites, terms, results, limitExceeded, idx, page, served,
                 lastRequest, atFailure>>
  /\ UNCHANGED saveVars
  /\ UNCHANGED gsVars

\* ---------------------------------------------------------- save_results
ZeroStats == [processed |-> 0, created |-> 0, duplicates |-> 0, errors |-> 0]
DefaultPriority == 1

AccIdle ==
  /\ websites = <<>>
  /\ terms = [t \in 1..3 |-> NoTerms]
  /\ results = EmptyMap
  /\ limitExceeded = FALSE
  /\ idx = 1
  /\ pc = "done"
  /\ page = 0
  /\ served = 0
  /\ lastRequest = NoRequest
  /\ atFailure = EmptyMap

SaveIdle ==
  /\ mapping = <<>>
  /\ check_duplicates = FALSE
  /\ progress_callback = FALSE
  /\ table = {}
  /\ all_items = <<>>
  /\ item_idx = 0
  /\ stats = ZeroStats
  /\ spc = "idle"
  /\ trace = <<>>

NotReturned == [error |-> "pending", items |-> <<>>]

GsIdle ==
  /\ cred_answers = <<>>
  /\ cred = 1
  /\ returned = NotReturned
  /\ gpc = "idle"
  /\ used = <<>>

Init ==
  /\ websites \in WebsiteLists
  /\ terms \in [1..3 -> TermChoices]
  /\ results = EmptyMap
  /\ limitExceeded = FALSE
  /\ idx = 1
  /\ pc = "site"
  /\ page = 0
  /\ served = 0
  /\ lastRequest = NoRequest
  /\ atFailure = EmptyMap
  /\ SaveIdle
  /\ GsIdle

Next ==
  \/ NextWebsite
  \/ Tier1Page
  \/ Tier2Guard
  \/ Tier2Page
  \/ Tier3Guard
  \/ Tier3Page
  \/ Truncate
  \/ Finish

Spec == Init /\ [][Next]_vars

\* Items handed to save_results: priority 0 stands for an item without a
\* priority key.
SaveItems ==
  { [link |-> "", priority |-> 0],
    [link |-> "u", priority |-> 2],
    [link |-> "v", priority |-> 0] }

RECURSIVE SeqsUpTo(_, _)
SeqsUpTo(S, n) ==
  IF n = 0 THEN { <<>> }
  ELSE LET shorter == SeqsUpTo(S, n - 1)
       IN  shorter \cup
           UNION { { Append(w, x) : x \in S } : w \in { v \in shorter : Len(v) = n - 1 } }

\* Two sites, in dict order, sharing at most MaxItems items.
Mappings ==
  UNION { { << <<"a.org", SubSeq(w, 1, k)>>, <<"b.org", SubSeq(w, k + 1, Len(w))>> >> :
              k \in 0..Len(w) } : w \in SeqsUpTo(SaveItems, MaxItems) }

\* for website, items in results.items(): for item in items:
\*     all_items.append((item, query, item.get('priority', priority)))
RECURSIVE Flattened(_, _)
Flattened(m, priority) ==
  IF m = <<>> THEN <<>>
  ELSE LET items == Head(m)[2]
       IN  [i \in 1..Len(items) |->
              [link |-> items[i].link,
               query |-> Head(m)[1],
               item_priority |-> IF items[i].priority = 0 THEN priority
                                 ELSE items[i].priority]]
           \o Flattened(Tail(m), priority)

Flatten ==
  /\ spc = "start"
  /\ all_items' = Flattened(mapping, DefaultPriority)
  /\ item_idx' = 0
  /\ spc' = "loop"
  /\ UNCHANGED <<mapping, check_duplicates, progress_callback, table, stats, trace>>
  /\ UNCHANGED accVars
  /\ UNCHANGED gsVars

total == Len(all_items)

Bump(st, field) ==
  [st EXCEPT ![field] = @ + 1, !.processed = @ + 1]

\* progress_callback(idx + 1, total, stats["created"], stats["errors"])
Callback(st) ==
  IF progress_callback
    THEN << [ev |-> "callback", item |-> item_idx + 1, info |-> "",
             args |-> <<item_idx + 1, total, st.created, st.errors>>] >>
    ELSE <<>>

Event(kind, info) ==
  << [ev |-> kind, item |-> item_idx + 1, info |-> info, args |-> <<>>] >>

\* The counters and the events of one pass through the loop body, for an
\* item with this link, given what the store does with the lookup and with
\* the create request.
EmptyLinkUncounted(st) ==
  [stats |-> [st EXCEPT !.processed = @ + 1], events |-> <<>>, written |-> FALSE]
\* if not link: errors, processed += 1; continue
EmptyLink(st) ==
  [stats |-> Bump(st, "errors"), events |-> <<>>, written |-> FALSE]

\* if existing: duplicates, processed += 1; callback; continue
DuplicateFound(st, lookup) ==
  LET after == Bump(st, "duplicates")
  IN  [stats |-> after, events |-> lookup \o Callback(after), written |-> FALSE]

WriteSucceededNoSleep(st, lookup) ==
  LET after == Bump(st, "created")
  IN  [stats |-> after,
       events |-> lookup \o Event("create", "ok") \o Callback(after),
       written |-> TRUE]

WriteSucceededSleepsFirst(st, lookup) ==
  LET after == Bump(st, "created")
  IN  [stats |-> after,
       events |-> lookup \o Event("sleep", "0.2") \o Event("create", "ok")
                  \o Callback(after),
       written |-> TRUE]

\* self.table.create(record); created, processed += 1; sleep; callback
WriteSucceeded(st, lookup) ==
  LET after == Bump(st, "created")
  IN  [stats |-> after,
       events |-> lookup \o Event("create", "ok") \o Event("sleep", "0.2")
                  \o Callback(after),
       written |-> TRUE]

WriteFailedUncounted(st, lookup) ==
  [stats |-> [st EXCEPT !.errors = @ + 1],
   events |-> lookup \o Event("create", "raise"), written |-> FALSE]
\* except Exception: errors, processed += 1; callback
WriteFailed(st, lookup) ==
  LET after == Bump(st, "errors")
  IN  [stats |-> after,
       events |-> lookup \o Event("create", "raise") \o Callback(after),
       written |-> FALSE]

LoopBodyAlwaysLooksUp(st, link, lookupAnswer, createAnswer) ==
  IF link = "" THEN EmptyLink(st)
  ELSE LET found == lookupAnswer = "ok" /\ link \in table
           lookup == Event("lookup", IF lookupAnswer = "raise" THEN "raise"
                                     ELSE IF found THEN "found" ELSE "none")
       IN  IF check_duplicates /\ found THEN DuplicateFound(st, lookup)
           ELSE IF createAnswer = "ok" THEN WriteSucceeded(st, lookup)
           ELSE WriteFailed(st, lookup)

LoopBodyLookupFailureSkips(st, link, lookupAnswer, createAnswer) ==
  IF link = "" THEN EmptyLink(st)
  ELSE LET found == lookupAnswer = "ok" /\ link \in table
           lookup == IF check_duplicates
                       THEN Event("lookup", IF lookupAnswer = "raise" THEN "raise"
                                            ELSE IF found THEN "found" ELSE "none")
                       ELSE <<>>
       IN  IF check_duplicates /\ found THEN DuplicateFound(st, lookup)
           ELSE IF check_duplicates /\ lookupAnswer = "raise"
             THEN [stats |-> Bump(st, "errors"),
                   events |-> lookup \o Callback(Bump(st, "errors")),
                   written |-> FALSE]
           ELSE IF createAnswer = "ok" THEN WriteSucceeded(st, lookup)
           ELSE WriteFailed(st, lookup)

LoopBody(st, link, lookupAnswer, createAnswer) ==
  IF link = "" THEN EmptyLink(st)
  ELSE LET found == lookupAnswer = "ok" /\ link \in table
           lookup == IF check_duplicates
                       THEN Event("lookup", IF lookupAnswer = "raise" THEN "raise"
                                            ELSE IF found THEN "found" ELSE "none")
                       ELSE <<>>
       IN  IF check_duplicates /\ found THEN DuplicateFound(st, lookup)
           ELSE IF createAnswer = "ok" THEN WriteSucceeded(st, lookup)
           ELSE WriteFailed(st, lookup)

ProcessItem ==
  /\ spc = "loop"
  /\ item_idx < total
  /\ \E lookupAnswer \in {"ok", "raise"}, createAnswer \in {"ok", "raise"} :
       LET link == all_items[item_idx + 1].link
           out == LoopBody(stats, link, lookupAnswer, createAnswer)
       IN  /\ stats' = out.stats
           /\ trace' = trace \o out.events
           /\ table' = IF out.written THEN table \cup {link} ELSE table
  /\ item_idx' = item_idx + 1
  /\ UNCHANGED <<mapping, check_duplicates, progress_callback, all_items, spc>>
  /\ UNCHANGED accVars
  /\ UNCHANGED gsVars

Return ==
  /\ spc = "loop"
  /\ item_idx = total
  /\ spc' = "done"
  /\ UNCHANGED <<mapping, check_duplicates, progress_callback, table, all_items,
                 item_idx, stats, trace>>
  /\ UNCHANGED accVars
  /\ UNCHANGED gsVars

SaveInit ==
  /\ AccIdle
  /\ mapping \in Mappings
  /\ check_duplicates \in BOOLEAN
  /\ progress_callback \in BOOLEAN
  /\ table \in SUBSET {"u"}
  /\ all_items = <<>>
  /\ item_idx = 0
  /\ stats = ZeroStats
  /\ spc = "start"
  /\ trace = <<>>
  /\ GsIdle

SaveNext ==
  \/ Flatten
  \/ ProcessItem
  \/ Return

SaveSpec == SaveInit /\ [][SaveNext]_vars

\* The loop is sequential code: it always takes its next step.
SaveLive == SaveSpec /\ WF_vars(SaveNext)

\* ---------------------------------------------------------- google_search
\* What the request of one credential pair may answer: a rate-limit error,
\* another error, a body without items, a body with items.
CredentialReplies ==
  { RateLimited, OtherError, Body(<<>>), Body(<<1, 2>>) }

IsRateLimitedAnyError(r) == r.error # ""

\* the negation of:
\* not response.get('error') or 'rateLimitExceeded' not in ...['reason']
IsRateLimited(r) == r.error # "" /\ r.error = "rateLimitExceeded"

\* One pass of: for cx, key in zip(GS_CX, GS_KEYS)
TryCredential ==
  /\ gpc = "loop"
  /\ cred <= NumCredentials
  /\ used' = Append(used, cred)
  /\ IF IsRateLimited(cred_answers[cred])
       THEN /\ cred' = cred + 1
            /\ UNCHANGED <<returned, gpc>>
       ELSE /\ returned' = cred_answers[cred]
            /\ gpc' = "returned"
            /\ UNCHANGED cred
  /\ UNCHANGED cred_answers
  /\ UNCHANGED <<accVars, saveVars>>

\* print("All keys have exceeded the rate limit."); return None
ReturnNone ==
  /\ gpc = "loop"
  /\ cred > NumCredentials
  /\ returned' = None
  /\ gpc' = "returned"
  /\ UNCHANGED <<cred_answers, cred, used>>
  /\ UNCHANGED <<accVars, saveVars>>

\* The caller: if current_results == None: limitExceeded = True
CheckResult ==
  /\ gpc = "returned"
  /\ limitExceeded' = FlagAfter(returned, limitExceeded)
  /\ gpc' = "checked"
  /\ UNCHANGED <<websites, terms, results, idx, pc, page, served, lastRequest,
                 atFailure>>
  /\ UNCHANGED saveVars
  /\ UNCHANGED <<cred_answers, cred, returned, used>>

SearchInit ==
  /\ AccIdle
  /\ SaveIdle
  /\ cred_answers \in [1..NumCredentials -> CredentialReplies]
  /\ cred = 1
  /\ returned = NotReturned
  /\ gpc = "loop"
  /\ used = <<>>

SearchNext ==
  \/ TryCredential
  \/ ReturnNone
  \/ CheckResult

SearchSpec == SearchInit /\ [][SearchNext]_vars

\* ================================================================ claims
IsPrefix(a, b) == Len(a) <= Len(b) /\ SubSeq(b, 1, Len(a)) = a

\* The search of site s is over: it was started and the loop over websites
\* has moved past it.
Finished(s) ==
  /\ s \in DOMAIN results
  /\ pc \in {"site", "done"} \/ s # websites[idx]

Requested == lastRequest' # lastRequest

\* C1: once the search of a site has finished, the site's list holds at
\* most 40 items.
C1_AtMostCap ==
  \A s \in DOMAIN results : Finished(s) => Len(results[s]) <= Cap

\* A finished site whose last page was merged into a list of 39 items.
C1_Witness ==
  \E s \in DOMAIN results :
    /\ Finished(s)
    /\ Len(results[s]) = Cap
    /\ lastRequest.site = s
    /\ lastRequest.before = Cap - 1
    /\ lastRequest.raw = PageSize

\* C2: after accumulation the links of a site's list are pairwise distinct.
C2_LinksDistinct ==
  \A s \in DOMAIN results :
    Finished(s) =>
      \A i, j \in 1..Len(results[s]) :
        i # j => results[s][i].link # results[s][j].link

\* C3 (as stated): no request is issued for a tier, tier 1 included, whose
\* four term fields are all empty.
C3_NoTermsNeverQueried ==
  lastRequest.tier # 0 => terms[lastRequest.tier] # NoTerms

\* C3 (amended): no request is issued for tier 2 or tier 3 when the tier's
\* four term fields are all empty.
C3_LaterTierWithoutTermsNeverQueried ==
  lastRequest.tier \in {2, 3} => terms[lastRequest.tier] # NoTerms

\* A site below the cap after tier 1 reaches the truncation with tiers 2
\* and 3 empty and no request made after tier 1.
C3_Witness ==
  /\ pc = "truncate"
  /\ terms[2] = NoTerms
  /\ terms[3] = NoTerms
  /\ Len(results[website]) < Cap
  /\ Len(results[website]) > 0
  /\ lastRequest.site = website
  /\ lastRequest.tier = 1

\* C5: a page of tier 2 or 3 leaves every item already listed as it is,
\* priority included, drops its own copy of every link already listed and
\* adds the others under its own priority; no link is listed under two
\* priorities.
LinksAt(list, p) ==
  { list[i].link : i \in { k \in 1..Len(list) : list[k].priority = p } }

OnePriorityPerLink ==
  \A s \in DOMAIN results :
    \A p, q \in 1..3 :
      p < q => LinksAt(results[s], p) \cap LinksAt(results[s], q) = {}

C5_FirstTierWins ==
  [][ /\ pc \in {"tier2", "tier3"} =>
          LET old == results[website]
              new == results'[website]
          IN  /\ IsPrefix(old, new)
              /\ \A i \in (Len(old) + 1)..Len(new) :
                    /\ new[i].link \notin Links(old)
                    /\ new[i].priority = lastRequest'.tier
      /\ OnePriorityPerLink' ]_vars

\* Tier 2 has just answered a full page with a link tier 1 had listed; the
\* copy was dropped and the first item is still tier 1's.
C5_Witness ==
  /\ pc = "tier2"
  /\ lastRequest.site = website
  /\ lastRequest.tier = 2
  /\ lastRequest.raw = PageSize
  /\ Len(results[website]) = lastRequest.before + PageSize - 1
  /\ results[website][1] = [link |-> 1, priority |-> 1]

\* C6: every page request finds the site's list below 40 items.
C6_NoRequestAtCap ==
  lastRequest.tier # 0 => lastRequest.before < Cap

\* Tier 2 reached the cap with pages of its budget left, and tier 3, which
\* has terms, was not started.
C6_Witness ==
  /\ pc = "truncate"
  /\ terms[3] # NoTerms
  /\ lastRequest.site = website
  /\ lastRequest.tier = 2
  /\ lastRequest.page < Budget2 - 1
  /\ Len(results[website]) >= Cap

\* C7: within a tier the pages are requested in increasing order starting
\* at 0, and a page is requested only after the page before it returned at
\* least 10 raw items.
C7_ShortPageIsLast ==
  [][ Requested =>
        IF lastRequest'.page = 0
          THEN ~ (lastRequest.site = lastRequest'.site /\
                  lastRequest.tier = lastRequest'.tier)
          ELSE /\ lastRequest.site = lastRequest'.site
               /\ lastRequest.tier = lastRequest'.tier
               /\ lastRequest.page + 1 = lastRequest'.page
               /\ ~ lastRequest.exhausted
               /\ lastRequest.raw >= PageSize ]_vars

\* Tier 1 answered 10, 10 and a short page, and ended after 3 requests.
C7_Witness ==
  /\ pc = "guard2"
  /\ lastRequest.site = website
  /\ lastRequest.tier = 1
  /\ lastRequest.page = 2
  /\ lastRequest.raw = ShortPage
  /\ lastRequest.before = 2 * PageSize

NextPosition(t) == IF t = 1 THEN "guard2" ELSE IF t = 2 THEN "guard3" ELSE "truncate"

RECURSIVE InputItems(_)
InputItems(m) == IF m = <<>> THEN <<>> ELSE Head(m)[2] \o InputItems(Tail(m))

InputCount == Len(InputItems(mapping))
Calls == SelectSeq(trace, LAMBDA e : e.ev = "callback")
Count(kind, info) ==
  Cardinality({ k \in 1..Len(trace) : trace[k].ev = kind /\ trace[k].info = info })
Happened(kind, i, info) ==
  \E k \in 1..Len(trace) :
    trace[k].ev = kind /\ trace[k].item = i /\ trace[k].info = info
EmptyLinks ==
  Cardinality({ k \in 1..InputCount : InputItems(mapping)[k].link = "" })

\* C4: on return the callback has been invoked once for each input item,
\* in worklist order.
C4_CallbackOncePerItem ==
  (spc = "done" /\ progress_callback) =>
    /\ Len(Calls) = InputCount
    /\ \A i \in 1..Len(Calls) : Calls[i].item = i

\* C9: every pass through the loop counts its item as processed, whatever
\* the store raised, and save_results returns with processed equal to the
\* number of input items.
C9_ProcessedCountsEveryItem ==
  /\ [](stats.processed = item_idx)
  /\ <>(spc = "done" /\ stats.processed = InputCount)

\* Returned after a write failure on item 1 and a lookup failure on item 2
\* that was followed by a write.
C9_Witness ==
  /\ spc = "done"
  /\ InputCount = MaxItems
  /\ stats.processed = MaxItems
  /\ Happened("create", 1, "raise")
  /\ Happened("lookup", 2, "raise")
  /\ Happened("create", 2, "ok")

Example ==
  /\ InputCount = 3
  /\ [i \in 1..3 |-> InputItems(mapping)[i].link] = <<"", "u", "v">>
  /\ Happened("create", 2, "raise")
  /\ Happened("create", 3, "ok")

\* C10: on return created counts the successful writes, duplicates the
\* lookups that found a match, errors the empty links and the failed
\* writes, and processed is their sum; one empty link, one failed write
\* and one successful write give processed 3, created 1, duplicates 0,
\* errors 2.
C10_CountersClassify ==
  spc = "done" =>
    /\ stats.created = Count("create", "ok")
    /\ stats.duplicates = Count("lookup", "found")
    /\ stats.errors = EmptyLinks + Count("create", "raise")
    /\ stats.processed = stats.created + stats.duplicates + stats.errors
    /\ Example =>
          stats = [processed |-> 3, created |-> 1, duplicates |-> 0, errors |-> 2]

C10_Witness ==
  /\ spc = "done"
  /\ Example
  /\ stats = [processed |-> 3, created |-> 1, duplicates |-> 0, errors |-> 2]

IsEvent(k, kind) == trace[k].ev = kind
StoreRequest(k) == IsEvent(k, "lookup") \/ IsEvent(k, "create")
LinkOf(i) == InputItems(mapping)[i].link

\* C11: with check_duplicates false no lookup is sent to the store; the only
\* store requests are creations, at most one for an item, and none for an
\* item with an empty link.
C11_NoLookupWithoutCheck ==
  ~ check_duplicates =>
    /\ \A k \in 1..Len(trace) : ~ IsEvent(k, "lookup")
    /\ \A k, l \in 1..Len(trace) :
          (IsEvent(k, "create") /\ IsEvent(l, "create") /\ trace[k].item = trace[l].item)
            => k = l
    /\ \A k \in 1..Len(trace) :
          IsEvent(k, "create") => LinkOf(trace[k].item) # ""

\* Returned without the duplicate check after writing the same link twice
\* and skipping an empty link.
C11_Witness ==
  /\ spc = "done"
  /\ ~ check_duplicates
  /\ InputCount = MaxItems
  /\ [i \in 1..3 |-> LinkOf(i)] = <<"u", "", "u">>
  /\ Happened("create", 1, "ok")
  /\ Happened("create", 3, "ok")

\* C12: with check_duplicates true an item whose lookup finds a match is not
\* written and is counted as a duplicate; an item whose lookup fails is
\* written all the same and is counted as created or as an error.
C12_LookupDecidesWrite ==
  check_duplicates =>
    /\ stats.duplicates = Count("lookup", "found")
    /\ \A k \in 1..Len(trace) :
          LET i == trace[k].item
          IN  /\ (IsEvent(k, "lookup") /\ trace[k].info = "found") =>
                    ~ \E l \in 1..Len(trace) : IsEvent(l, "create") /\ trace[l].item = i
              /\ (IsEvent(k, "lookup") /\ trace[k].info = "raise") =>
                    /\ k < Len(trace)
                    /\ IsEvent(k + 1, "create")
                    /\ trace[k + 1].item = i
    /\ stats.created + stats.errors =
          Count("create", "ok") + Count("create", "raise") +
          Cardinality({ i \in 1..item_idx : LinkOf(i) = "" })

\* Returned after a lookup that found a match, a lookup that failed and
\* was followed by a successful write, and one that failed and was followed
\* by a failed write.
C12_Witness ==
  /\ spc = "done"
  /\ check_duplicates
  /\ Happened("lookup", 1, "found")
  /\ Happened("lookup", 2, "raise")
  /\ Happened("create", 2, "ok")
  /\ Happened("lookup", 3, "raise")
  /\ Happened("create", 3, "raise")
  /\ stats = [processed |-> 3, created |-> 1, duplicates |-> 1, errors |-> 1]

\* C13: a successful write is followed at once by the delay, before any
\* other request to the store; a delay is enforced nowhere else, so none
\* for an item that is skipped.
C13_DelayAfterSuccessfulWrite ==
  \A k \in 1..Len(trace) :
    /\ (IsEvent(k, "create") /\ trace[k].info = "ok") =>
          /\ k < Len(trace)
          /\ IsEvent(k + 1, "sleep")
          /\ trace[k + 1].item = trace[k].item
    /\ IsEvent(k, "sleep") =>
          /\ k > 1
          /\ IsEvent(k - 1, "create")
          /\ trace[k - 1].info = "ok"
          /\ trace[k - 1].item = trace[k].item

\* Returned after a duplicate that was skipped, a successful write with
\* its delay, and an empty link: one delay in all.
C13_Witness ==
  /\ spc = "done"
  /\ InputCount = MaxItems
  /\ Happened("lookup", 1, "found")
  /\ Happened("create", 2, "ok")
  /\ Happened("sleep", 2, "0.2")
  /\ LinkOf(3) = ""
  /\ Cardinality({ k \in 1..Len(trace) : IsEvent(k, "sleep") }) = 1

ConsecutiveWrites(k, l) ==
  /\ k < l
  /\ IsEvent(k, "create")
  /\ IsEvent(l, "create")
  /\ \A j \in (k + 1)..(l - 1) : ~ IsEvent(j, "create")

DelayBetween(k, l) == \E j \in (k + 1)..(l - 1) : IsEvent(j, "sleep")

\* C14 (as stated): between any two consecutive write requests the delay
\* is enforced, also when the first of the two failed.
C14_DelayBetweenAnyWrites ==
  \A k, l \in 1..Len(trace) : ConsecutiveWrites(k, l) => DelayBetween(k, l)

\* C14 (amended): between two consecutive write requests the delay is
\* enforced when the first of the two succeeded, and no delay is enforced
\* when it failed.
C14_DelayAfterSuccessOnly ==
  \A k, l \in 1..Len(trace) :
    ConsecutiveWrites(k, l) => (DelayBetween(k, l) <=> trace[k].info = "ok")

\* Three writes in a row: the first failed and the second followed without
\* a delay, the second succeeded and the third followed after the delay.
C14_Witness ==
  /\ spc = "done"
  /\ Happened("create", 1, "raise")
  /\ Happened("create", 2, "ok")
  /\ Happened("create", 3, "raise")
  /\ Cardinality({ k \in 1..Len(trace) : IsEvent(k, "sleep") }) = 1

\* ------------------------------------------------------------ list order
TierOrdered(list) ==
  \A i \in 1..(Len(list) - 1) : list[i].priority <= list[i + 1].priority

\* C15: at every point a site's list is ordered by tier (priorities never
\* decrease along the list), and the truncation keeps the first 40 items,
\* or all of them when there are fewer, in their order.
C15_TierOrderKept ==
  [][ /\ \A s \in DOMAIN results' : TierOrdered(results'[s])
      /\ pc = "truncate" =>
            LET old == results[website]
                new == results'[website]
            IN  /\ Len(new) = IF Len(old) > Cap THEN Cap ELSE Len(old)
                /\ \A i \in 1..Len(new) : new[i] = old[i] ]_vars

\* A finished site whose list of 40 starts with tier 1, holds tier 2 items
\* and ends with tier 3 items that survived the cut of a tenth page merged
\* at 39 items.
C15_Witness ==
  \E s \in DOMAIN results :
    /\ Finished(s)
    /\ Len(results[s]) = Cap
    /\ lastRequest.site = s
    /\ lastRequest.tier = 3
    /\ lastRequest.before = Cap - 1
    /\ lastRequest.raw = PageSize
    /\ results[s][1].priority = 1
    /\ \E i \in 1..Cap : results[s][i].priority = 2
    /\ results[s][Cap].priority = 3

\* ---------------------------------------------------------- google_search
AllLimited ==
  \A i \in 1..NumCredentials : cred_answers[i].error = "rateLimitExceeded"

FirstAnswering ==
  IF AllLimited THEN 0
  ELSE CHOOSE i \in 1..NumCredentials :
         /\ cred_answers[i].error # "rateLimitExceeded"
         /\ \A j \in 1..(i - 1) : cred_answers[j].error = "rateLimitExceeded"

\* C16: the credential pairs are used in their fixed order; the call
\* returns the answer of the first pair that is not rate limited, having
\* sent no request with a later pair; it returns None exactly when every
\* pair was rate limited, and only then does the caller set limitExceeded:
\* an answer carrying another error comes back like any other answer.
C16_CredentialRotation ==
  /\ used = [k \in 1..Len(used) |-> k]
  /\ gpc \in {"returned", "checked"} =>
        /\ IF AllLimited
              THEN returned = None /\ Len(used) = NumCredentials
              ELSE /\ returned = cred_answers[FirstAnswering]
                   /\ Len(used) = FirstAnswering
        /\ returned = None <=> AllLimited
        /\ returned = google_search(cred_answers)
  /\ gpc = "checked" => (limitExceeded <=> AllLimited)

\* The first pair was rate limited, the second answered with another
\* error: that answer came back, the third pair was not used and the flag
\* is not set.
C16_Witness ==
  /\ gpc = "checked"
  /\ cred_answers = <<RateLimited, OtherError, Body(<<1, 2>>)>>
  /\ returned = OtherError
  /\ used = <<1, 2>>
  /\ ~ limitExceeded
====
